---- MODULE Spec2Model ----
(***************************************************************************)
(* A model of shinju.py: the directory walker (walk_tree), the content     *)
(* matcher (search_file), the entry formatter (format_entry) and the       *)
(* command-line entry point (main, print_tree).                            *)
(*                                                                         *)
(* Text is a sequence of character codes, so that case folding, prefix     *)
(* tests, ordering and pattern matching are computed and not assumed.      *)
(* A file system is a sequence of nodes; node i of the sequence hangs      *)
(* below the root (parent 0) or below an earlier node, and the position    *)
(* of a node in the sequence is the order in which iterdir() yields it.    *)
(***************************************************************************)
EXTENDS Integers, Sequences, FiniteSets, TLC

(***************************************************************************)
(* Bounds of the model.                                                    *)
(***************************************************************************)
MaxNodes == 2      \* nodes below the root, in the runs of the whole program
MaxEntries == 3    \* nodes below the root, in the runs that check the order
MaxLevel == 1      \* the largest value of -L

(***************************************************************************)
(* Characters.                                                             *)
(***************************************************************************)
NUL == 0
NL == 10
SP == 32
LPAREN == 40
COMMA == 44
DOT == 46

\* str.lower() on the ASCII letters
Lower(c) == IF c >= 65 /\ c <= 90 THEN c + 32 ELSE c

LowerStr(s) == [i \in 1..Len(s) |-> Lower(s[i])]

\* str.isspace() on the characters of the model
IsSpace(c) == c \in {9, NL, 13, SP}

\* Python's < on str: lexicographic by code point
RECURSIVE StrLess(_, _)
StrLess(s, t) ==
    IF t = <<>> THEN FALSE
    ELSE IF s = <<>> THEN TRUE
    ELSE IF s[1] # t[1] THEN s[1] < t[1]
    ELSE StrLess(Tail(s), Tail(t))

\* str.strip()
RECURSIVE LStrip(_)
LStrip(s) == IF s # <<>> /\ IsSpace(s[1]) THEN LStrip(Tail(s)) ELSE s

RECURSIVE RStrip(_)
RStrip(s) ==
    IF s # <<>> /\ IsSpace(s[Len(s)]) THEN RStrip(SubSeq(s, 1, Len(s) - 1)) ELSE s

Strip(s) == RStrip(LStrip(s))

\* str.lstrip(".")
RECURSIVE LStripDots(_)
LStripDots(s) == IF s # <<>> /\ s[1] = DOT THEN LStripDots(Tail(s)) ELSE s

\* str.split(",")
RECURSIVE SplitComma(_, _)
SplitComma(s, cur) ==
    IF s = <<>> THEN <<cur>>
    ELSE IF s[1] = COMMA THEN <<cur>> \o SplitComma(Tail(s), <<>>)
    ELSE SplitComma(Tail(s), Append(cur, s[1]))

RECURSIVE SeqFilterNonEmpty(_)
SeqFilterNonEmpty(ss) ==
    IF ss = <<>> THEN <<>>
    ELSE IF ss[1] # <<>> THEN <<ss[1]>> \o SeqFilterNonEmpty(Tail(ss))
    ELSE SeqFilterNonEmpty(Tail(ss))

\* [p.strip() for p in pattern.split(",") if p.strip()]
Keywords(pattern) ==
    LET parts == SplitComma(pattern, <<>>)
    IN  SeqFilterNonEmpty([i \in 1..Len(parts) |-> Strip(parts[i])])

(***************************************************************************)
(* Optional values: None, or a value.                                      *)
(***************************************************************************)
None == [some |-> FALSE, val |-> <<>>]
Some(v) == [some |-> TRUE, val |-> v]
\* Python truthiness of an optional string: neither None nor ""
Truthy(o) == o.some /\ o.val # <<>>

(***************************************************************************)
(* Regular expressions.  The patterns of the model are built from          *)
(* letters, digits, blanks, commas, "." and "(": as a regular expression   *)
(* "." stands for any character but a newline, "(" opens a group that      *)
(* nothing in this alphabet closes (re.error), and every other character   *)
(* stands for itself; re.escape turns every character into a literal.      *)
(***************************************************************************)
ReError == [ok |-> FALSE, atoms |-> <<>>, icase |-> FALSE]

\* re.compile(p if is_regex else re.escape(p), flags)
ReCompile(p, is_regex, ignore_case) ==
    IF is_regex /\ \E i \in 1..Len(p) : p[i] = LPAREN
    THEN ReError
    ELSE [ok |-> TRUE,
          atoms |-> [i \in 1..Len(p) |->
                        IF is_regex /\ p[i] = DOT
                        THEN [any |-> TRUE, ch |-> DOT]
                        ELSE [any |-> FALSE, ch |-> p[i]]],
          icase |-> ignore_case]

AtomMatches(a, c, icase) ==
    IF a.any THEN c # NL
    ELSE IF icase THEN Lower(a.ch) = Lower(c)
    ELSE a.ch = c

\* the compiled pattern matches s at position i
MatchesAt(cp, s, i) ==
    /\ i + Len(cp.atoms) - 1 <= Len(s)
    /\ \A k \in 1..Len(cp.atoms) : AtomMatches(cp.atoms[k], s[i + k - 1], cp.icase)

\* compiled.search(s): a match anywhere in s
ReSearch(cp, s) ==
    IF cp.atoms = <<>> THEN TRUE
    ELSE \E i \in 1..Len(s) : MatchesAt(cp, s, i)

\* compiled.findall(s): the matched texts, leftmost first, non-overlapping
RECURSIVE FindAllFrom(_, _, _)
FindAllFrom(cp, s, i) ==
    IF i > Len(s) THEN <<>>
    ELSE IF MatchesAt(cp, s, i)
         THEN <<SubSeq(s, i, i + Len(cp.atoms) - 1)>>
                 \o FindAllFrom(cp, s, i + Len(cp.atoms))
         ELSE FindAllFrom(cp, s, i + 1)

FindAll(cp, s) == FindAllFrom(cp, s, 1)

(***************************************************************************)
(* File-system nodes.  A node is a record                                  *)
(*   parent   : 0 for the root directory, else the index of its directory  *)
(*   name     : the entry's name                                           *)
(*   isDir    : entry.is_dir()                                             *)
(*   denied   : listing the directory raises PermissionError               *)
(*   readable : open() on the file succeeds                                *)
(*   content  : the bytes of the file                                      *)
(***************************************************************************)
BAD == 255          \* a byte that is no valid UTF-8 in any position

\* File extensions to exclude from content search
EXCLUDE_EXTENSIONS ==
    { <<103, 122>>, <<122, 105, 112>>, <<116, 97, 114>>, <<114, 97, 114>>,
      <<55, 122>>, <<98, 122, 50>>, <<120, 122>>, <<100, 101, 98>>,
      <<105, 109, 103>>, <<105, 115, 111>>, <<118, 109, 100, 107>>,
      <<100, 108, 108>>, <<111, 118, 102>>, <<111, 118, 97>> }

BinaryChunk == 1024
SnippetMax == 50
Ellipsis == <<DOT, DOT, DOT>>

\* pathlib: PurePath.suffix
Suffix(name) ==
    LET dots == {i \in 1..Len(name) : name[i] = DOT}
    IN  IF dots = {} THEN <<>>
        ELSE LET i == CHOOSE d \in dots : \A e \in dots : e <= d
             IN  IF 1 < i /\ i < Len(name) THEN SubSeq(name, i, Len(name)) ELSE <<>>

\* Check if a file is binary by reading a small chunk.
is_binary_file(node) ==
    IF ~node.readable THEN TRUE
    ELSE \E i \in 1..Len(node.content) : i <= BinaryChunk /\ node.content[i] = NUL

\* open(..., encoding="utf-8", errors="ignore"): malformed bytes are dropped
RECURSIVE Decode(_)
Decode(bytes) ==
    IF bytes = <<>> THEN <<>>
    ELSE IF bytes[1] = BAD THEN Decode(Tail(bytes))
    ELSE <<bytes[1]>> \o Decode(Tail(bytes))

\* f.readlines(): every line keeps its newline
RECURSIVE ReadLines(_, _)
ReadLines(text, cur) ==
    IF text = <<>> THEN (IF cur = <<>> THEN <<>> ELSE <<cur>>)
    ELSE IF text[1] = NL THEN <<Append(cur, NL)>> \o ReadLines(Tail(text), <<>>)
    ELSE ReadLines(Tail(text), Append(cur, text[1]))

NoSnippet == [set |-> FALSE, match |-> <<>>, line |-> <<>>]
NoMatch == [count |-> 0, snippet |-> NoSnippet]

MakeSnippet(first_match, line) ==
    LET line_stripped == Strip(line)
    IN  [set |-> TRUE,
         match |-> first_match,
         line |-> IF Len(line_stripped) > SnippetMax
                  THEN SubSeq(line_stripped, 1, SnippetMax) \o Ellipsis
                  ELSE line_stripped]

\* ScanPatterns with a slip: match_count += 1 for a line that matches
RECURSIVE ScanPatternsPerLine(_, _, _, _)
ScanPatternsPerLine(line, cps, k, acc) ==
    IF k > Len(cps) THEN acc
    ELSE LET matches == FindAll(cps[k], line)
         IN  IF matches # <<>>
             THEN ScanPatternsPerLine(line, cps, k + 1,
                     [count |-> acc.count + 1,
                      snippet |-> IF ~acc.snippet.set
                                  THEN MakeSnippet(matches[1], line)
                                  ELSE acc.snippet])
             ELSE ScanPatternsPerLine(line, cps, k + 1, acc)

\* for compiled_pattern in compiled_patterns: ... (one line of the file)
RECURSIVE ScanPatterns(_, _, _, _)
ScanPatterns(line, cps, k, acc) ==
    IF k > Len(cps) THEN acc
    ELSE LET matches == FindAll(cps[k], line)
         IN  IF matches # <<>>
             THEN ScanPatterns(line, cps, k + 1,
                     [count |-> acc.count + Len(matches),
                      snippet |-> IF ~acc.snippet.set
                                  THEN MakeSnippet(matches[1], line)
                                  ELSE acc.snippet])
             ELSE ScanPatterns(line, cps, k + 1, acc)

\* for line in lines: ...
RECURSIVE ScanLines(_, _, _, _)
ScanLines(lines, cps, i, acc) ==
    IF i > Len(lines) THEN acc
    ELSE ScanLines(lines, cps, i + 1, ScanPatterns(lines[i], cps, 1, acc))

\* patterns = [pattern] if is_regex else the comma-separated keywords
Patterns(pattern, is_regex) == IF is_regex THEN <<pattern>> ELSE Keywords(pattern)

CompiledPatterns(pattern, is_regex, ignore_case) ==
    LET ps == Patterns(pattern, is_regex)
    IN  [k \in 1..Len(ps) |-> ReCompile(ps[k], is_regex, ignore_case)]

\* Search for matches in a file: (match_count, first_match_snippet)
search_file(node, pattern, is_regex, ignore_case) ==
    LET ext == LowerStr(LStripDots(Suffix(node.name)))
    IN  IF ext \in EXCLUDE_EXTENSIONS THEN NoMatch
        ELSE IF is_binary_file(node) THEN NoMatch
        ELSE LET lines == ReadLines(Decode(node.content), <<>>)
                 cps == CompiledPatterns(pattern, is_regex, ignore_case)
             IN  IF \E k \in 1..Len(cps) : ~cps[k].ok
                 THEN NoMatch      \* except re.error
                 ELSE ScanLines(lines, cps, 1, NoMatch)

(***************************************************************************)
(* The entry formatter.                                                    *)
(***************************************************************************)
\* Tree branch characters
BRANCH == "|-- "
LAST_BRANCH == "+-- "
PIPE == "|   "
SPACE == "    "

\* Format a directory entry with optional highlighting.
format_entry(name, is_dir, match_count, snippet, name_matched, search_active) ==
    LET base == [style |-> "plain", name |-> name, slash |-> FALSE,
                 tag |-> "", count |-> 0, snippet |-> NoSnippet]
    IN  IF name_matched /\ match_count > 0
        THEN [base EXCEPT !.style = "green", !.slash = is_dir, !.snippet = snippet]
        ELSE IF name_matched
        THEN [base EXCEPT !.style = "green", !.slash = is_dir, !.tag = "[match]"]
        ELSE IF is_dir
        THEN [base EXCEPT !.style = "blue", !.slash = TRUE]
        ELSE IF match_count > 0
        THEN [base EXCEPT !.style = "magenta",
                          !.tag = IF match_count = 1 THEN "match" ELSE "matches",
                          !.count = match_count, !.snippet = snippet]
        ELSE IF search_active
        THEN [base EXCEPT !.style = "dim"]
        ELSE base

(***************************************************************************)
(* The tree walker.  A configuration is a record                           *)
(*   show_hidden, dirs_only, match_only, is_regex, ignore_case : BOOLEAN   *)
(*   max_depth : None or Some(n)                                           *)
(*   search_pattern, name_pattern : None or Some(text)                     *)
(* A line is a record: kind ("entry" or "denied"), the prefix (a sequence  *)
(* of PIPE and SPACE), the branch glyph, the formatted name, and entry,    *)
(* the node the line was rendered for (0 is the root).                     *)
(***************************************************************************)
ZeroStats == [dirs |-> 0, files |-> 0, name_matches |-> 0, content_matches |-> 0]

\* AddStats with a slip: the files of the subdirectories are not added
AddStatsNoFiles(a, b) ==
    [dirs |-> a.dirs + b.dirs, files |-> a.files,
     name_matches |-> a.name_matches + b.name_matches,
     content_matches |-> a.content_matches + b.content_matches]

\* stats[k] += sub_stats[k], for the four counters
AddStats(a, b) ==
    [dirs |-> a.dirs + b.dirs, files |-> a.files + b.files,
     name_matches |-> a.name_matches + b.name_matches,
     content_matches |-> a.content_matches + b.content_matches]

Returned(lines, stats) == [raised |-> FALSE, lines |-> lines, stats |-> stats]
Raised == [raised |-> TRUE, lines |-> <<>>, stats |-> ZeroStats]

DeniedLine(dir, prefix) ==
    [kind |-> "denied", prefix |-> prefix, branch |-> "", entry |-> dir,
     text |-> [style |-> "dim", name |-> <<>>, slash |-> FALSE,
               tag |-> "[permission denied]", count |-> 0, snippet |-> NoSnippet]]

EntryLine(e, prefix, branch, formatted_name) ==
    [kind |-> "entry", prefix |-> prefix, branch |-> branch, entry |-> e,
     text |-> formatted_name]

\* directory.iterdir(): the children of dir, in the order the system lists them
RECURSIVE IterDir(_, _, _)
IterDir(fs, dir, i) ==
    IF i > Len(fs) THEN <<>>
    ELSE IF fs[i].parent = dir THEN <<i>> \o IterDir(fs, dir, i + 1)
    ELSE IterDir(fs, dir, i + 1)

\* KeyLess with a slip: the names are compared as they are, not lowered
KeyLessCased(fs, a, b) ==
    IF fs[a].isDir # fs[b].isDir THEN fs[a].isDir
    ELSE StrLess(fs[a].name, fs[b].name)

\* key=lambda e: (not e.is_dir(), e.name.lower()), compared as Python tuples
KeyLess(fs, a, b) ==
    IF fs[a].isDir # fs[b].isDir THEN fs[a].isDir
    ELSE StrLess(LowerStr(fs[a].name), LowerStr(fs[b].name))

\* insert e behind every element that is not greater: the sort is stable
RECURSIVE InsertSorted(_, _, _)
InsertSorted(fs, sorted, e) ==
    IF sorted = <<>> THEN <<e>>
    ELSE IF KeyLess(fs, e, sorted[1]) THEN <<e>> \o sorted
    ELSE <<sorted[1]>> \o InsertSorted(fs, Tail(sorted), e)

RECURSIVE SortEntries(_, _, _)
SortEntries(fs, es, acc) ==
    IF es = <<>> THEN acc
    ELSE SortEntries(fs, Tail(es), InsertSorted(fs, acc, es[1]))

Sorted(fs, es) == SortEntries(fs, es, <<>>)

RECURSIVE FilterEntries(_, _, _)
FilterEntries(fs, es, cfg) ==
    IF es = <<>> THEN <<>>
    ELSE LET e == es[1]
             keep == /\ (cfg.show_hidden \/ ~(fs[e].name # <<>> /\ fs[e].name[1] = DOT))
                     /\ (cfg.dirs_only => fs[e].isDir)
         IN  (IF keep THEN <<e>> ELSE <<>>) \o FilterEntries(fs, Tail(es), cfg)

\* the entries the loop of walk_tree runs over
Entries(fs, dir, cfg) == FilterEntries(fs, Sorted(fs, IterDir(fs, dir, 1)), cfg)

\* File name search: name_matched, or the re.error of re.compile
NameSearch(name, cfg) ==
    IF ~Truthy(cfg.name_pattern) THEN [raised |-> FALSE, matched |-> FALSE]
    ELSE LET compiled == ReCompile(cfg.name_pattern.val, cfg.is_regex, cfg.ignore_case)
         IN  IF ~compiled.ok THEN [raised |-> TRUE, matched |-> FALSE]
             ELSE [raised |-> FALSE, matched |-> ReSearch(compiled, name)]

\* File content search (independent of name search)
ContentSearch(node, cfg) ==
    IF Truthy(cfg.search_pattern) /\ ~node.isDir
    THEN search_file(node, cfg.search_pattern.val, cfg.is_regex, cfg.ignore_case)
    ELSE NoMatch

\* DirShown with a slip: the directory's own name is not looked at
DirShownNoName(cfg, sub_stats, name_matched) ==
    \/ ~cfg.match_only
    \/ sub_stats.name_matches > 0
    \/ sub_stats.content_matches > 0

\* In match_only mode, only show directory if it has matches inside or name matched
DirShown(cfg, sub_stats, name_matched) ==
    LET has_matches == \/ sub_stats.name_matches > 0
                       \/ sub_stats.content_matches > 0
                       \/ name_matched
    IN  ~cfg.match_only \/ has_matches

\* In match_only mode, only show file if it has a match
FileShown(cfg, name_matched, match_count) ==
    LET has_match == name_matched \/ match_count > 0
    IN  ~cfg.match_only \/ has_match

\* is_last = i == len(entries) - 1
IsLast(entries, i) == i = Len(entries)

\* CutOff with a slip: > for >=
CutOffLate(cfg, current_depth) == cfg.max_depth.some /\ current_depth > cfg.max_depth.val

\* the depth cutoff of walk_tree
CutOff(cfg, current_depth) == cfg.max_depth.some /\ current_depth >= cfg.max_depth.val

\* the counters of the frame after counting the entry itself
CountEntry(stats, is_dir, name_matched, match_count) ==
    [dirs |-> stats.dirs + (IF is_dir THEN 1 ELSE 0),
     files |-> stats.files + (IF is_dir THEN 0 ELSE 1),
     name_matches |-> stats.name_matches + (IF name_matched THEN 1 ELSE 0),
     content_matches |-> stats.content_matches + (IF match_count > 0 THEN 1 ELSE 0)]

\* Recursively walk the directory tree and build the output: (lines, stats)
RECURSIVE walk_tree(_, _, _, _, _)
RECURSIVE WalkEntries(_, _, _, _, _, _, _, _)

\* for i, entry in enumerate(entries): ...
WalkEntries(fs, entries, i, prefix, current_depth, cfg, lines, stats) ==
    IF i > Len(entries) THEN Returned(lines, stats)
    ELSE
      LET entry == entries[i]
          is_last == IsLast(entries, i)
          branch == IF is_last THEN LAST_BRANCH ELSE BRANCH
          next_prefix == Append(prefix, IF is_last THEN SPACE ELSE PIPE)
          is_dir == fs[entry].isDir
          ns == NameSearch(fs[entry].name, cfg)
      IN
      IF ns.raised THEN Raised
      ELSE
        LET found == ContentSearch(fs[entry], cfg)
            own == CountEntry(stats, is_dir, ns.matched, found.count)
            formatted_name ==
                format_entry(fs[entry].name, is_dir, found.count, found.snippet,
                             ns.matched,
                             cfg.search_pattern.some \/ cfg.name_pattern.some)
            line == EntryLine(entry, prefix, branch, formatted_name)
        IN
        IF is_dir
        THEN LET sub == walk_tree(fs, entry, next_prefix, current_depth + 1, cfg)
             IN  IF sub.raised THEN Raised
                 ELSE WalkEntries(fs, entries, i + 1, prefix, current_depth, cfg,
                         IF DirShown(cfg, sub.stats, ns.matched)
                         THEN lines \o <<line>> \o sub.lines
                         ELSE lines,
                         AddStats(own, sub.stats))
        ELSE WalkEntries(fs, entries, i + 1, prefix, current_depth, cfg,
                 IF FileShown(cfg, ns.matched, found.count)
                 THEN Append(lines, line)
                 ELSE lines,
                 own)

\* walk_tree with a slip: in match_only mode a frame that shows nothing
\* returns at once, with empty counters
walk_tree_prunes_stats(fs, dir, prefix, current_depth, cfg) ==
    IF CutOff(cfg, current_depth) THEN Returned(<<>>, ZeroStats)
    ELSE IF dir # 0 /\ fs[dir].denied
    THEN Returned(<<DeniedLine(dir, prefix)>>, ZeroStats)
    ELSE LET r == WalkEntries(fs, Entries(fs, dir, cfg), 1, prefix, current_depth,
                              cfg, <<>>, ZeroStats)
         IN  IF ~r.raised /\ cfg.match_only /\ r.lines = <<>>
             THEN Returned(<<>>, ZeroStats)
             ELSE r

\* walk_tree with a slip: PermissionError is not caught
walk_tree_denied_raises(fs, dir, prefix, current_depth, cfg) ==
    IF CutOff(cfg, current_depth) THEN Returned(<<>>, ZeroStats)
    ELSE IF dir # 0 /\ fs[dir].denied THEN Raised
    ELSE WalkEntries(fs, Entries(fs, dir, cfg), 1, prefix, current_depth, cfg,
                     <<>>, ZeroStats)

\* dir is 0 for the root directory, else the index of a directory node
walk_tree(fs, dir, prefix, current_depth, cfg) ==
    IF CutOff(cfg, current_depth) THEN Returned(<<>>, ZeroStats)
    ELSE IF dir # 0 /\ fs[dir].denied
    THEN Returned(<<DeniedLine(dir, prefix)>>, ZeroStats)
    ELSE WalkEntries(fs, Entries(fs, dir, cfg), 1, prefix, current_depth, cfg,
                     <<>>, ZeroStats)

(***************************************************************************)
(* print_tree and main.                                                    *)
(***************************************************************************)
\* the summary line of print_tree
Summary(stats, cfg) ==
    [dirs |-> stats.dirs,
     dir_text |-> IF stats.dirs = 1 THEN "directory" ELSE "directories",
     files |-> stats.files,
     file_text |-> IF stats.files = 1 THEN "file" ELSE "files",
     name |-> IF Truthy(cfg.name_pattern)
              THEN <<stats.name_matches,
                     IF stats.name_matches = 1 THEN "name match" ELSE "name matches">>
              ELSE <<>>,
     content |-> IF Truthy(cfg.search_pattern)
                 THEN <<stats.content_matches,
                        IF stats.content_matches = 1 THEN "content match"
                        ELSE "content matches">>
                 ELSE <<>>]

\* search_to_validate = args.search or args.name
SearchToValidate(cfg) ==
    IF Truthy(cfg.search_pattern) THEN cfg.search_pattern ELSE cfg.name_pattern

\* Validate regex pattern if provided: TRUE when main exits with code 1
ValidationFails(cfg) ==
    LET search_to_validate == SearchToValidate(cfg)
    IN  /\ Truthy(search_to_validate)
        /\ cfg.is_regex
        /\ ~ReCompile(search_to_validate.val, TRUE, FALSE).ok

(***************************************************************************)
(* The inputs of the model: names, file contents, patterns.                *)
(***************************************************************************)
NameA == <<97>>                                 \* "a"
NameB == <<66>>                                 \* "B"
NameHidden == <<DOT, 98>>                       \* ".b"
NameZeta == <<90, 101, 116, 97>>                \* "Zeta"
NameApple == <<97, 112, 112, 108, 101>>         \* "apple"
NameBanana == <<66, 97, 110, 97, 110, 97>>      \* "Banana"
NameGz == <<97, DOT, 71, 122>>                  \* "a.Gz"
NameDotGz == <<DOT, 103, 122>>                  \* ".gz"

TextA == <<65, SP, 97, NL>>                     \* "A a\n"
TextB == <<98, SP, 66, NL, 98>>                 \* "b B\nb"
TextSix == <<98, 97, 98, NL, SP, 98, 98, SP, NL, 98, 120, 98>>
                                                \* "bab\n bb \nbxb"
TextOverlap == <<98, 98, 98, NL>>               \* "bbb\n"
TextBinary == <<98, NUL, 98>>                   \* "b\0b"
TextMalformed == <<98, BAD, 98, NL, BAD>>       \* "b", a bad byte, "b\n", a bad byte

PatB == <<98>>                                  \* "b"
PatBB == <<98, 98>>                             \* "bb"
PatAn == <<97, 110>>                            \* "an"
PatOpen == <<LPAREN>>                           \* "(", no regular expression
PatDot == <<DOT>>                               \* "."
PatList == <<SP, 98, SP, COMMA, COMMA, 97>>     \* " b ,,a"
PatCommas == <<COMMA, SP, COMMA>>               \* ", ,"

\* what the files of the walker runs contain
ContentOf(name) ==
    IF name = NameA THEN TextA
    ELSE IF name \in {NameB, NameHidden} THEN TextB
    ELSE <<>>

DirNode(p, n, d) ==
    [parent |-> p, name |-> n, isDir |-> TRUE, denied |-> d,
     readable |-> TRUE, content |-> <<>>]
FileNode(p, n, r, c) ==
    [parent |-> p, name |-> n, isDir |-> FALSE, denied |-> FALSE,
     readable |-> r, content |-> c]

\* the nodes that may be added to the file system fs: below the root or a
\* directory of fs, under a name no sibling bears.  The nodes are numbered
\* directory by directory (the order of the listing is an order among
\* siblings), so a new node is not put below an earlier directory than the
\* last one was
NewNodes(fs, names, denials) ==
    LET last == IF fs = <<>> THEN 0 ELSE fs[Len(fs)].parent
        parents == {p \in {0} \cup {i \in 1..Len(fs) : fs[i].isDir} : p >= last}
        free(p) == {n \in names : \A i \in 1..Len(fs) :
                                     fs[i].parent = p => fs[i].name # n}
    IN  UNION {
          {DirNode(p, n, d) : n \in free(p), d \in denials}
          \cup {FileNode(p, n, TRUE, ContentOf(n)) : n \in free(p)}
          : p \in parents }

RECURSIVE FileSystemsOfSize(_, _, _)
FileSystemsOfSize(n, names, denials) ==
    IF n = 0 THEN {<<>>}
    ELSE UNION { {Append(fs, node) : node \in NewNodes(fs, names, denials)}
                 : fs \in FileSystemsOfSize(n - 1, names, denials) }

FileSystems(max, names, denials) ==
    UNION {FileSystemsOfSize(n, names, denials) : n \in 0..max}

Depths == {None} \cup {Some(n) : n \in 0..MaxLevel}

\* name pattern, search pattern, -r, -i
SearchSettings ==
    { <<None, None, FALSE, FALSE>>,
      <<Some(PatB), None, FALSE, TRUE>>,
      <<None, Some(PatB), FALSE, FALSE>>,
      <<Some(PatB), Some(PatB), FALSE, FALSE>>,
      <<Some(PatDot), Some(PatB), TRUE, FALSE>>,
      <<Some(PatOpen), Some(PatB), TRUE, FALSE>>,
      <<Some(PatB), Some(PatOpen), TRUE, TRUE>> }

Config(hidden, dirs, only, depth, s) ==
    [show_hidden |-> hidden, dirs_only |-> dirs, match_only |-> only,
     max_depth |-> depth, name_pattern |-> s[1], search_pattern |-> s[2],
     is_regex |-> s[3], ignore_case |-> s[4]]

Configs ==
    {Config(h, d, m, l, s) : h \in BOOLEAN, d \in BOOLEAN, m \in BOOLEAN,
                             l \in Depths, s \in SearchSettings}

(***************************************************************************)
(* The state machine.                                                      *)
(***************************************************************************)
VARIABLES
    target,     \* what the directory argument names: "dir", "file", "missing"
    fs,         \* the file system below the directory argument
    cfg,        \* the parsed arguments
    pc,         \* where the program is
    found,      \* what the last direct call of search_file returned
    out         \* what walk_tree returned (or that it raised), and the summary

vars == <<target, fs, cfg, pc, found, out>>

NoOutput == [raised |-> FALSE, lines |-> <<>>, stats |-> ZeroStats, summary |-> <<>>]

Output(r, summary) ==
    [raised |-> r.raised, lines |-> r.lines, stats |-> r.stats, summary |-> summary]

\* one run of the program: python shinju.py ...
Init ==
    /\ target \in {"dir", "file", "missing"}
    /\ fs \in (IF target = "dir"
               THEN FileSystems(MaxNodes, {NameA, NameB, NameHidden}, BOOLEAN)
               ELSE {<<>>})
    /\ cfg \in Configs
    /\ pc = "main"
    /\ found = NoMatch
    /\ out = NoOutput

\* main: the path does not exist, or is not a directory
MainBadPath ==
    /\ pc = "main"
    /\ target # "dir"
    /\ pc' = "exit1"
    /\ UNCHANGED <<target, fs, cfg, found, out>>

\* main: Invalid regex pattern
MainInvalidRegex ==
    /\ pc = "main"
    /\ target = "dir"
    /\ ValidationFails(cfg)
    /\ pc' = "exit1"
    /\ UNCHANGED <<target, fs, cfg, found, out>>

\* main: the arguments pass, print_tree is called
MainCallPrintTree ==
    /\ pc = "main"
    /\ target = "dir"
    /\ ~ValidationFails(cfg)
    /\ pc' = "print_tree"
    /\ UNCHANGED <<target, fs, cfg, found, out>>

\* print_tree: the walk returns, the lines and the summary are printed
PrintTree ==
    /\ pc = "print_tree"
    /\ LET r == walk_tree(fs, 0, <<>>, 0, cfg)
       IN  /\ ~r.raised
           /\ out' = Output(r, Summary(r.stats, cfg))
    /\ pc' = "done"
    /\ UNCHANGED <<target, fs, cfg, found>>

\* print_tree: an exception leaves walk_tree and ends the program
PrintTreeRaises ==
    /\ pc = "print_tree"
    /\ LET r == walk_tree(fs, 0, <<>>, 0, cfg)
       IN  /\ r.raised
           /\ out' = Output(r, <<>>)
    /\ pc' = "error"
    /\ UNCHANGED <<target, fs, cfg, found>>

Next ==
    \/ MainBadPath
    \/ MainInvalidRegex
    \/ MainCallPrintTree
    \/ PrintTree
    \/ PrintTreeRaises

Spec == Init /\ [][Next]_vars

(***************************************************************************)
(* Direct calls of walk_tree on directories of up to MaxEntries nodes,     *)
(* for the order of the lines.                                             *)
(***************************************************************************)
OrderConfigs ==
    {Config(h, d, m, None, <<n, None, FALSE, FALSE>>) :
        h \in BOOLEAN, d \in BOOLEAN, m \in BOOLEAN, n \in {None, Some(PatAn)}}

InitOrder ==
    /\ target = "dir"
    /\ fs \in FileSystems(MaxEntries, {NameZeta, NameApple, NameBanana, NameHidden},
                          {FALSE})
    /\ cfg \in OrderConfigs
    /\ pc = "walk_tree"
    /\ found = NoMatch
    /\ out = NoOutput

\* walk_tree(directory, "", ...) is called and returns or raises
CallWalkTree ==
    /\ pc = "walk_tree"
    /\ out' = Output(walk_tree(fs, 0, <<>>, 0, cfg), <<>>)
    /\ pc' = "returned"
    /\ UNCHANGED <<target, fs, cfg, found>>

SpecOrder == InitOrder /\ [][CallWalkTree]_vars

(***************************************************************************)
(* Direct calls of search_file, and of walk_tree on the directory that     *)
(* holds nothing but the file searched.                                    *)
(***************************************************************************)
SearchNodes ==
    {FileNode(0, n, r, c) :
        n \in {NameA, NameGz, NameDotGz}, r \in BOOLEAN,
        c \in {<<>>, TextB, TextSix, TextOverlap, TextBinary, TextMalformed}}
    \cup {DirNode(0, NameB, FALSE)}

SearchConfigs ==
    {Config(TRUE, FALSE, FALSE, None, <<None, Some(p), r, i>>) :
        p \in {PatB, PatBB, PatOpen, PatDot, PatList, PatCommas},
        r \in BOOLEAN, i \in BOOLEAN}

InitSearch ==
    /\ target = "dir"
    /\ fs \in {<<n>> : n \in SearchNodes}
    /\ cfg \in SearchConfigs
    /\ pc = (IF fs[1].isDir THEN "walk_tree" ELSE "search_file")
    /\ found = NoMatch
    /\ out = NoOutput

\* search_file(filepath, pattern, is_regex, ignore_case) is called and returns
CallSearchFile ==
    /\ pc = "search_file"
    /\ found' = search_file(fs[1], cfg.search_pattern.val, cfg.is_regex,
                            cfg.ignore_case)
    /\ pc' = "walk_tree"
    /\ UNCHANGED <<target, fs, cfg, out>>

NextSearch ==
    \/ CallSearchFile
    \/ CallWalkTree

SpecSearch == InitSearch /\ [][NextSearch]_vars

(***************************************************************************)
(* What the claims speak of, said without walk_tree.                       *)
(***************************************************************************)
Nodes == 1..Len(fs)
Dirs == {n \in Nodes : fs[n].isDir}

\* the directories above node n, the root (0) among them
RECURSIVE Ancestors(_)
Ancestors(n) ==
    IF n = 0 THEN {}
    ELSE {fs[n].parent} \cup Ancestors(fs[n].parent)

Descendants(D) == {n \in Nodes : D \in Ancestors(n)}

\* the directories strictly between D and its descendant n
Between(D, n) == Ancestors(n) \ (Ancestors(D) \cup {D})

\* children of D are at level 1
LevelBelow(D, n) == Cardinality(Between(D, n)) + 1

IsHidden(n) == fs[n].name # <<>> /\ fs[n].name[1] = DOT

\* the descendants of D of which claim C1 speaks
Claimed(D) ==
    {n \in Descendants(D) :
        /\ cfg.max_depth.some => LevelBelow(D, n) <= cfg.max_depth.val
        /\ cfg.show_hidden \/ (~IsHidden(n) /\ \A a \in Between(D, n) : ~IsHidden(a))
        /\ cfg.dirs_only => fs[n].isDir}

\* those of them that the listing of no directory on the way hides
Listed(D) ==
    {n \in Claimed(D) :
        /\ D # 0 => ~fs[D].denied
        /\ \A a \in Between(D, n) : ~fs[a].denied}

NameMatched(n) == NameSearch(fs[n].name, cfg).matched
ContentCount(n) == ContentSearch(fs[n], cfg).count
Matched(n) == NameMatched(n) \/ ContentCount(n) > 0

EntryLines(lines) == {i \in 1..Len(lines) : lines[i].kind = "entry"}
Emitted(n) == \E i \in EntryLines(out.lines) : out.lines[i].entry = n

\* the run of the program has ended
Ended == pc \in {"done", "error", "exit1"}

\* walk_tree called on directory D as print_tree calls it on the root
TopWalk(D) == walk_tree(fs, D, <<>>, 0, cfg)

(***************************************************************************)
(* C1.  As claimed: files + dirs is the number of descendants within       *)
(* maxDepth, unhidden (or all, with showHidden) and directories only with  *)
(* dirsOnly.  The code cannot count what lies below a directory whose      *)
(* listing is denied.                                                      *)
(***************************************************************************)
\* C1 as stated: the stats of walk_tree(D) count every descendant of D that is
\* within maxDepth and passes the hidden and dirsOnly filters
C1_AsClaimed ==
    pc = "done" =>
        out.stats.files + out.stats.dirs = Cardinality(Claimed(0))

\* C1 amended: the stats of walk_tree(D) count every descendant of D that is
\* within maxDepth, passes the hidden and dirsOnly filters, and lies below no
\* directory (D included) whose listing is denied
C1_SubtreeAggregate ==
    /\ pc = "done" =>
          out.stats.files + out.stats.dirs = Cardinality(Listed(0))
    /\ Ended =>
          \A D \in Dirs :
              LET r == TopWalk(D)
              IN  ~r.raised => r.stats.files + r.stats.dirs = Cardinality(Listed(D))

\* a walk that counted a directory and the file in it
C1_Witness ==
    /\ pc = "done"
    /\ \E n \in Listed(0) : LevelBelow(0, n) = 2 /\ ~fs[n].isDir
    /\ out.stats.files + out.stats.dirs = 2

(***************************************************************************)
(* C2.  Pruning is display-only.                                           *)
(***************************************************************************)
Flipped == [cfg EXCEPT !.match_only = ~cfg.match_only]

\* C2: the four counters are the same with and without matchesOnly, and with
\* matchesOnly and no match among the entries walked, no entry line is shown
\* while dirs and files are the true counts
C2_PruningDisplayOnly ==
    pc = "done" =>
        LET other == walk_tree(fs, 0, <<>>, 0, Flipped)
            walked == Listed(0)
        IN  /\ ~other.raised /\ other.stats = out.stats
            /\ (cfg.match_only /\ \A n \in walked : ~Matched(n)) =>
                  /\ EntryLines(out.lines) = {}
                  /\ out.stats.dirs = Cardinality(walked \cap Dirs)
                  /\ out.stats.files = Cardinality(walked \ Dirs)

\* matchesOnly, a search that matches nothing, an empty display, two entries counted
C2_Witness ==
    /\ pc = "done"
    /\ cfg.match_only
    /\ Truthy(cfg.name_pattern) \/ Truthy(cfg.search_pattern)
    /\ \A n \in Listed(0) : ~Matched(n)
    /\ out.lines = <<>>
    /\ out.stats.dirs = 1 /\ out.stats.files = 1

(***************************************************************************)
(* C3.  What matchesOnly shows.                                            *)
(***************************************************************************)
MatchBelow(walked, n) == \E m \in walked \cap Descendants(n) : Matched(m)

\* C3: with matchesOnly a directory is shown iff its name matched or an entry
\* counted below it matched, a file iff its name or its content matched;
\* without matchesOnly every entry that was walked is shown; nothing else is
C3_Visibility ==
    pc = "done" =>
        LET walked == Listed(0)
        IN  /\ \A n \in Nodes \ walked : ~Emitted(n)
            /\ \A n \in walked :
                  IF ~cfg.match_only THEN Emitted(n)
                  ELSE IF fs[n].isDir
                  THEN Emitted(n) <=> (NameMatched(n) \/ MatchBelow(walked, n))
                  ELSE Emitted(n) <=> Matched(n)

\* matchesOnly: a directory shown for its name alone, with a file below it
\* that is not shown
C3_Witness ==
    /\ pc = "done"
    /\ cfg.match_only
    /\ \E d \in Listed(0) \cap Dirs :
          /\ Emitted(d) /\ NameMatched(d) /\ ~MatchBelow(Listed(0), d)
          /\ \E f \in Listed(0) \cap Descendants(d) : ~Emitted(f)

(***************************************************************************)
(* C4.  The depth cutoff.                                                  *)
(***************************************************************************)
\* C4: a call at depth >= maxDepth returns no line and zero stats; a walk with
\* maxDepth 0 shows and counts nothing; with maxDepth k nothing more than k
\* levels below the root is shown or counted
C4_DepthCutoff ==
    /\ (Ended /\ cfg.max_depth.some) =>
          \A D \in Dirs \cup {0}, depth \in 0..(MaxLevel + 1), prefix \in {<<>>, <<PIPE>>} :
              depth >= cfg.max_depth.val =>
                  walk_tree(fs, D, prefix, depth, cfg) = Returned(<<>>, ZeroStats)
    /\ (pc = "done" /\ cfg.max_depth = Some(0)) =>
          out = Output(Returned(<<>>, ZeroStats), Summary(ZeroStats, cfg))
    /\ (pc = "done" /\ cfg.max_depth.some) =>
          /\ \A n \in Nodes : Emitted(n) => LevelBelow(0, n) <= cfg.max_depth.val
          /\ out.stats.dirs + out.stats.files
                <= Cardinality({n \in Nodes : LevelBelow(0, n) <= cfg.max_depth.val})

\* -L 1 on a tree with an unhidden file at level 2: the directory is shown,
\* the file is not
C4_Witness ==
    /\ pc = "done"
    /\ cfg.max_depth = Some(1)
    /\ ~cfg.dirs_only /\ ~cfg.match_only
    /\ \E n \in Nodes : LevelBelow(0, n) = 2 /\ ~IsHidden(n) /\ ~Emitted(n)
                        /\ Emitted(fs[n].parent)
    /\ out.stats.dirs + out.stats.files = 1

(***************************************************************************)
(* C5.  The validation of main.                                            *)
(***************************************************************************)
Compiles(o) == ReCompile(o.val, TRUE, cfg.ignore_case).ok

\* C5: with -r, print_tree is never called with a supplied pattern (-s or
\* -n) that is no valid regular expression
C5_NoTraversalWithInvalidRegex ==
    (pc \in {"print_tree", "done", "error"} /\ cfg.is_regex) =>
        /\ Truthy(cfg.search_pattern) => Compiles(cfg.search_pattern)
        /\ Truthy(cfg.name_pattern) => Compiles(cfg.name_pattern)

(***************************************************************************)
(* C6.  Exceptions.                                                        *)
(***************************************************************************)
\* C6: walk_tree returns a (lines, stats) pair whatever the tree and the
\* configuration: no exception leaves it
C6_NoExceptionEscapes ==
    /\ pc # "error"
    /\ ~out.raised

(***************************************************************************)
(* C7.  Directories that may not be listed.                                *)
(***************************************************************************)
ChildPrefix(line) ==
    Append(line.prefix, IF line.branch = LAST_BRANCH THEN SPACE ELSE PIPE)

DeniedListed == {d \in Listed(0) \cap Dirs : fs[d].denied}

LaterSibling(lines, i) ==
    \E j \in EntryLines(lines) :
        j > i /\ fs[lines[j].entry].parent = fs[lines[i].entry].parent

\* C10: in every mode, of the lines shown for the children of one directory
\* the last bears the corner and the others the tee, and the lines below an
\* entry bear the blank under a corner and the pipe under a tee
C10_BranchGlyphs ==
    pc = "done" =>
        \A i \in EntryLines(out.lines) :
            /\ out.lines[i].branch
                  = (IF LaterSibling(out.lines, i) THEN BRANCH ELSE LAST_BRANCH)
            /\ \A j \in 1..Len(out.lines) :
                  (\/ out.lines[j].kind = "entry"
                        /\ fs[out.lines[j].entry].parent = out.lines[i].entry
                   \/ out.lines[j].kind = "denied"
                        /\ out.lines[j].entry = out.lines[i].entry) =>
                      out.lines[j].prefix = ChildPrefix(out.lines[i])

(***************************************************************************)
(* C8.  The order of the lines.                                            *)
(***************************************************************************)
RECURSIVE IsSubsequence(_, _)
IsSubsequence(a, b) ==
    IF a = <<>> THEN TRUE
    ELSE IF b = <<>> THEN FALSE
    ELSE IF a[1] = b[1] THEN IsSubsequence(Tail(a), Tail(b))
    ELSE IsSubsequence(a, Tail(b))

EntryOrder(lines) == [i \in 1..Len(lines) |-> lines[i].entry]

Unfiltered == [cfg EXCEPT !.show_hidden = TRUE, !.dirs_only = FALSE,
                          !.match_only = FALSE]

\* C8: among the lines of one directory's entries the directories come first
\* and, within each group, the names ascend ignoring case; the lines of a
\* directory's subtree follow its line at once; the filters leave the order
\* of what remains as it is
C8_Ordering ==
    (pc = "returned" /\ ~out.raised) =>
        LET ls == out.lines
            name(i) == LowerStr(fs[ls[i].entry].name)
            dir(i) == fs[ls[i].entry].isDir
        IN  /\ \A i \in 1..Len(ls) : ls[i].kind = "entry"
            /\ \A i, j \in 1..Len(ls) :
                  (i < j /\ fs[ls[i].entry].parent = fs[ls[j].entry].parent) =>
                      /\ dir(j) => dir(i)
                      /\ (dir(i) = dir(j)) => ~StrLess(name(j), name(i))
            /\ \A i, j \in 1..Len(ls) :
                  ls[j].entry \in Descendants(ls[i].entry) =>
                      /\ i < j
                      /\ \A k \in i..j : k # i => ls[k].entry \in Descendants(ls[i].entry)
            /\ IsSubsequence(EntryOrder(ls),
                             EntryOrder(walk_tree(fs, 0, <<>>, 0, Unfiltered).lines))

\* the directory Zeta, the entry in it, and then the file apple of the root,
\* which the system listed before Zeta
C8_Witness ==
    /\ pc = "returned"
    /\ Len(out.lines) = 3
    /\ fs[out.lines[1].entry].isDir
    /\ fs[out.lines[2].entry].parent = out.lines[1].entry
    /\ fs[out.lines[3].entry].parent = 0
    /\ fs[out.lines[3].entry].name = NameApple
    /\ fs[out.lines[1].entry].name = NameZeta
    /\ out.lines[3].entry < out.lines[1].entry

(***************************************************************************)
(* C9.  Counting content matches.                                          *)
(***************************************************************************)
\* the most matches of cp in line that do not overlap one another
MaxNonOverlapping(cp, line) ==
    LET starts == {i \in 1..Len(line) : MatchesAt(cp, line, i)}
        apart(S) == \A i, j \in S : i < j => j - i >= Len(cp.atoms)
        sizes == {Cardinality(S) : S \in {T \in SUBSET starts : apart(T)}}
    IN  CHOOSE m \in sizes : \A k \in sizes : k <= m

RECURSIVE SumOverPatterns(_, _, _)
SumOverPatterns(cps, line, k) ==
    IF k > Len(cps) THEN 0
    ELSE MaxNonOverlapping(cps[k], line) + SumOverPatterns(cps, line, k + 1)

RECURSIVE SumOverLines(_, _, _)
SumOverLines(cps, lines, i) ==
    IF i > Len(lines) THEN 0
    ELSE SumOverPatterns(cps, lines[i], 1) + SumOverLines(cps, lines, i + 1)

Scanned(node) ==
    /\ ~node.isDir
    /\ LowerStr(LStripDots(Suffix(node.name))) \notin EXCLUDE_EXTENSIONS
    /\ node.readable
    /\ \A i \in 1..Len(node.content) : node.content[i] # NUL

\* C9: the count search_file returns for a scanned file is the sum, over the
\* lines and the compiled patterns, of the non-overlapping matches; the
\* walker adds 1 to content_matches for a file with a count > 0, 0 for any
\* other file and for a directory, and shows the count on the file's line
C9_MatchCounting ==
    LET cps == CompiledPatterns(cfg.search_pattern.val, cfg.is_regex, cfg.ignore_case)
        lines == ReadLines(Decode(fs[1].content), <<>>)
    IN  /\ (pc \in {"walk_tree", "returned"} /\ Scanned(fs[1])
              /\ \A k \in 1..Len(cps) : cps[k].ok) =>
                  found.count = SumOverLines(cps, lines, 1)
        /\ pc = "returned" =>
              /\ ~out.raised
              /\ out.stats.content_matches
                    = (IF ~fs[1].isDir /\ found.count > 0 THEN 1 ELSE 0)
              /\ (~fs[1].isDir /\ found.count > 0) =>
                    out.lines[1].text.count = found.count

\* three lines, each with the keyword twice: a count of 6, one content match
C9_Witness ==
    /\ pc = "returned"
    /\ fs[1].content = TextSix
    /\ cfg.search_pattern = Some(PatB) /\ ~cfg.is_regex /\ ~cfg.ignore_case
    /\ found.count = 6
    /\ out.stats.content_matches = 1
    /\ out.lines[1].text.count = 6

====
